---- MODULE Spec2Model ----
(***************************************************************************)
(* Model of the scheduled script unusedRecordCleaner.js: one run of        *)
(* execute -> UnusedRecordController.cleanupUnusedRecords against the      *)
(* N/query, N/record, N/translation and N/log services.                    *)
(*                                                                         *)
(* Every action is one uninterrupted stretch of the script: it begins when *)
(* the outstanding remote promise settles and runs up to the next remote   *)
(* call the script awaits (or to the end of the run).                      *)
(***************************************************************************)
EXTENDS Integers, Sequences, FiniteSets, TLC

\* ------------------------------------------------------------------ bounds
MaxRows == 2      \* longest result set the query service returns
NumIds == 2       \* internal ids that exist in the target table's universe
MaxRuns == 2      \* invocations of execute by the scheduler (SpecRerun)

\* --------------------------------------------------------------- universes
Ids == 1..NumIds

NameOf(i) == IF i % 2 = 1 THEN "TestRecord A" ELSE "TestRecord B"

\* rows of customrecord_mycustomrecord as asMappedResults() exposes them
Rows == {[id |-> i, name |-> NameOf(i)] : i \in Ids}

\* rows of a result set: the selected columns, possibly with a further column
ResultRows ==
  Rows \cup {[id |-> r.id, name |-> r.name, rownumber |-> "1"] : r \in Rows}

RowSeqs == UNION {[1..n -> ResultRows] : n \in 0..MaxRows}

\* what runSuiteQL.promise resolves with: a result set, or nothing
NoResults == [present |-> FALSE, rows |-> <<>>]

QueryResults == {NoResults}
                  \cup {[present |-> TRUE, rows |-> s] : s \in RowSeqs}

NoError == [name |-> "", message |-> ""]

\* errors the remote services reject with
Errors == {[name |-> "SSS_REQUEST_FAILED", message |-> "Request failed"],
           [name |-> "INSUFFICIENT_PERMISSION",
            message |-> "Permission denied"]}

\* what translation.get returns: undefined, or a string (possibly empty)
Absent == [present |-> FALSE, text |-> ""]

Translations == {Absent,
                 [present |-> TRUE, text |-> ""],
                 [present |-> TRUE, text |-> "Localized error"]}

\* ------------------------------------------------------------------- state
VARIABLES
  pc,              \* where the run is suspended
  results,         \* fetchUnusedRecords: const results
  candidates,      \* cleanupUnusedRecords: const candidates
  idx,             \* position of the for..of iterator in candidates
  deleteCount,     \* cleanupUnusedRecords: let deleteCount
  newAuditRecord,  \* createAuditRecord: const newAuditRecord (field values)
  result,          \* settlement of the promise execute returned
  log,             \* N/log lines written by the current run
  calls,           \* remote promise calls of the current run, with outcomes
  lookups,         \* translation.get calls of the current run, with results
  table,           \* rows of customrecord_mycustomrecord
  refs,            \* non-null referencingTable.customRecordRef values
  auditTable,      \* rows of customrecord_deletion_audit
  exact,           \* this run's query returned exactly the unreferenced rows
  run,             \* number of the current invocation
  prev,            \* how the previous invocation went
  policy           \* ids a substituted dependency check reports true for

vars == <<pc, results, candidates, idx, deleteCount, newAuditRecord, result,
          log, calls, lookups, table, refs, auditTable, exact, run, prev,
          policy>>

runVars == <<run, prev, policy>>

NoRecord == [custrecord_deleted_record_id |-> 0,
             custrecord_deleted_record_name |-> ""]

Pending == [status |-> "pending", error |-> NoError]

Resolved == [status |-> "resolved", error |-> NoError]

Rejected(e) == [status |-> "rejected", error |-> e]

\* ------------------------------------------------------------ remote calls
\* pos is the position in candidates of the candidate the call is made for
Call(op, pos, type, field, id, name) ==
  [op |-> op, pos |-> pos, type |-> type, field |-> field, id |-> id,
   name |-> name, outcome |-> "pending", error |-> NoError]

QueryCall == Call("runSuiteQL", 0, "", "", 0, "")

\* variant: the delete is issued against the audit record type
DeleteCallAuditType(pos, recordData) ==
  Call("delete", pos, "customrecord_deletion_audit", "", recordData.id, "")

DeleteCall(pos, recordData) ==
  Call("delete", pos, "customrecord_mycustomrecord", "", recordData.id, "")

CreateCall(pos) ==
  Call("create", pos, "customrecord_deletion_audit", "", 0, "")

\* variant: the id field is given the loop position instead of the record id
SetIdCallPosition(pos, recordData) ==
  Call("setValue", pos, "", "custrecord_deleted_record_id", pos, "")

SetIdCall(pos, recordData) ==
  Call("setValue", pos, "", "custrecord_deleted_record_id",
       recordData.id, "")

\* variant: the name field is given the record's id
SetNameCallWithId(pos, recordData) ==
  Call("setValue", pos, "", "custrecord_deleted_record_name",
       recordData.id, "")

SetNameCall(pos, recordData) ==
  Call("setValue", pos, "", "custrecord_deleted_record_name",
       0, recordData.name)

SaveCall(pos) == Call("save", pos, "", "", 0, "")

\* the outstanding call has settled
Settle(cl, outcome, e) ==
  [cl EXCEPT ![Len(cl)].outcome = outcome, ![Len(cl)].error = e]

\* ----------------------------------------------------------------- logging
Line(level, title, details) ==
  [level |-> level, title |-> title, details |-> details]

logNoRecordsFound ==
  Line("audit", "No Unused Records", "No unused records found for deletion.")

logCompletion(count) ==
  Line("audit", "Unused Record Cleanup Complete",
       "Total records deleted: " \o ToString(count))

RecordDeletedLine(recordData) ==
  Line("audit", "Record Deleted", "Record ID: " \o ToString(recordData.id))

AuditCreatedLine(savedId, recordData) ==
  Line("audit", "Audit Record Created",
       "Audit Record ID: " \o ToString(savedId)
         \o ", Deleted Record ID: " \o ToString(recordData.id))

\* variant: translation.get(...) ?? 'fallback'
OrDefaultNullish(t, fallback) ==
  IF t.present THEN t.text ELSE fallback

\* translation.get(...) || 'fallback'
OrDefault(t, fallback) ==
  IF t.present /\ t.text # "" THEN t.text ELSE fallback

Lookup(key, t) ==
  [collection |-> "unusedRecordCleaner", key |-> key, value |-> t]

\* the three catch blocks: the line they log and the error they throw
\* variant: throws a new error built from the title instead of rethrowing e
fetchCatchWrapped(e, t) ==
  [lookup |-> Lookup("query_error", t),
   line |-> Line("error", OrDefault(t, "Error fetching unused records."),
                 e.message),
   thrown |-> [name |-> "Error",
               message |-> OrDefault(t, "Error fetching unused records.")]]

fetchCatch(e, t) ==
  [lookup |-> Lookup("query_error", t),
   line |-> Line("error", OrDefault(t, "Error fetching unused records."),
                 e.message),
   thrown |-> e]

\* variant: logs the title as the details instead of e.message
deleteCatchTitleAsDetails(e, t) ==
  [lookup |-> Lookup("delete_error", t),
   line |-> Line("error", OrDefault(t, "Error deleting record."),
                 OrDefault(t, "Error deleting record.")),
   thrown |-> e]

deleteCatch(e, t) ==
  [lookup |-> Lookup("delete_error", t),
   line |-> Line("error", OrDefault(t, "Error deleting record."), e.message),
   thrown |-> e]

\* variant: throws a new error built from the title instead of rethrowing e
auditCatchWrapped(e, t) ==
  [lookup |-> Lookup("audit_error", t),
   line |-> Line("error", OrDefault(t, "Error creating audit record."),
                 e.message),
   thrown |-> [name |-> "Error",
               message |-> OrDefault(t, "Error creating audit record.")]]

\* variant: the catch block copied from deleteRecord with its key and title
auditCatchDeleteKey(e, t) ==
  [lookup |-> Lookup("delete_error", t),
   line |-> Line("error", OrDefault(t, "Error deleting record."), e.message),
   thrown |-> e]

auditCatch(e, t) ==
  [lookup |-> Lookup("audit_error", t),
   line |-> Line("error", OrDefault(t, "Error creating audit record."),
                 e.message),
   thrown |-> e]

\* ---------------------------------------------------------- external store
\* SELECT id, name ... WHERE id NOT IN (SELECT DISTINCT customRecordRef ...)
Unreferenced == {r \in table : r.id \notin refs}

IsExact(res) ==
  /\ res.present
  /\ Len(res.rows) = Cardinality(Unreferenced)
  /\ {[id |-> res.rows[i].id, name |-> res.rows[i].name] :
        i \in 1..Len(res.rows)} = Unreferenced

\* record.delete of an id removes that row from the target table
DeleteFrom(t, id) == {r \in t : r.id # id}

\* save() of a new audit record inserts it under a fresh internal id
NextAuditId(a) == Len(a) + 1

SavedRow(savedId, rec) ==
  [id |-> savedId,
   custrecord_deleted_record_id |-> rec.custrecord_deleted_record_id,
   custrecord_deleted_record_name |-> rec.custrecord_deleted_record_name]

\* ------------------------------------------------------------------- model
\* variant: a check that reports dependencies for the record with id 1
hasDependenciesFirstId(candidate) == candidate.id = 1

hasDependencies(candidate) == FALSE

\* const hasDeps = await UnusedRecordModel.hasDependencies(candidate): what
\* the shipped stub returns, or what a check substituted for it reports
hasDeps(candidate) == hasDependencies(candidate) \/ candidate.id \in policy

\* variant: recordsArr.push(row)
MapResultsWholeRow(res) ==
  IF res.present /\ Len(res.rows) > 0 THEN res.rows ELSE <<>>

\* recordsArr as fetchUnusedRecords builds it from the result set
MapResults(res) ==
  IF res.present /\ Len(res.rows) > 0
    THEN [i \in 1..Len(res.rows) |->
            [id |-> res.rows[i].id, name |-> res.rows[i].name]]
    ELSE <<>>

\* variant: the counter is never advanced
IncrementNone(n) == n

\* variant: the counter is advanced after the delete and again after the audit
IncrementTwice(n) == n + 2

\* deleteCount++
Increment(n) == n + 1

\* variant: the empty test is missing
NoCandidatesNever(c) == FALSE

\* !candidates || candidates.length === 0
NoCandidates(c) == Len(c) = 0

\* variant: the loop without its "if (hasDeps) continue"
NextEligibleNoSkip(c, i) == i

\* the for..of loop skipping every candidate that has dependencies
RECURSIVE NextEligible(_, _)
NextEligible(c, i) ==
  IF i > Len(c) THEN i
  ELSE IF hasDeps(c[i]) THEN NextEligible(c, i + 1)
  ELSE i

\* the loop from position i up to its next await, or through logCompletion
LoopFrom(c, i, count, lg, cl) ==
  LET j == NextEligible(c, i) IN
  /\ idx' = j
  /\ IF j > Len(c)
       THEN /\ log' = Append(lg, logCompletion(count))
            /\ calls' = cl
            /\ pc' = "done"
            /\ result' = Resolved
       ELSE /\ log' = lg
            /\ calls' = Append(cl, DeleteCall(j, c[j]))
            /\ pc' = "delete"
            /\ result' = Pending

\* a catch block ran: log, rethrow; nobody up the stack catches
Fail(caught, cl) ==
  /\ lookups' = Append(lookups, caught.lookup)
  /\ log' = Append(log, caught.line)
  /\ calls' = cl
  /\ result' = Rejected(caught.thrown)
  /\ pc' = "failed"

\* the module as loaded, before the scheduler invokes execute
InitRun ==
  /\ pc = "idle"
  /\ results = NoResults
  /\ candidates = <<>>
  /\ idx = 0
  /\ deleteCount = 0
  /\ newAuditRecord = NoRecord
  /\ result = Pending
  /\ log = <<>>
  /\ calls = <<>>
  /\ lookups = <<>>
  /\ table \in SUBSET Rows
  /\ refs \in SUBSET Ids
  /\ auditTable = <<>>
  /\ exact = FALSE
  /\ run = 1
  /\ prev = "none"

\* the script as shipped: no dependency check but the stub
Init == InitRun /\ policy = {}

\* the script with any dependency check substituted for the stub
InitPolicy == InitRun /\ policy \in SUBSET Ids

\* execute(context) up to the await of query.runSuiteQL.promise
Start ==
  /\ pc' = "query"
  /\ results' = NoResults
  /\ candidates' = <<>>
  /\ idx' = 0
  /\ deleteCount' = 0
  /\ newAuditRecord' = NoRecord
  /\ result' = Pending
  /\ log' = <<>>
  /\ calls' = <<QueryCall>>
  /\ lookups' = <<>>
  /\ exact' = FALSE
  /\ UNCHANGED <<table, refs, auditTable>>

Execute ==
  /\ pc = "idle"
  /\ Start
  /\ UNCHANGED runVars

\* the scheduler invokes execute again after a finished run
Reexecute ==
  /\ pc \in {"done", "failed"}
  /\ run < MaxRuns
  /\ run' = run + 1
  /\ prev' = IF result.status = "resolved" /\ exact THEN "clean" ELSE "other"
  /\ UNCHANGED policy
  /\ Start

\* the query resolved: build recordsArr, return, test for empty, enter loop
QueryResolveFrom(resultSets) ==
  /\ pc = "query"
  /\ \E res \in resultSets :
       LET c == MapResults(res)
           cl == Settle(calls, "ok", NoError) IN
       /\ results' = res
       /\ candidates' = c
       /\ exact' = IsExact(res)
       /\ IF NoCandidates(c)
            THEN /\ log' = Append(log, logNoRecordsFound)
                 /\ calls' = cl
                 /\ pc' = "done"
                 /\ result' = Resolved
                 /\ idx' = 0
            ELSE LoopFrom(c, 1, deleteCount, log, cl)
  /\ UNCHANGED <<deleteCount, newAuditRecord, lookups, table, refs,
                 auditTable, runVars>>

\* the query service resolves with any result set
QueryResolve == QueryResolveFrom(QueryResults)

\* the query service resolves with exactly the unreferenced rows of the table
QueryResolveExact ==
  QueryResolveFrom({res \in QueryResults : IsExact(res)})

\* variant: fetchUnusedRecords' catch logs but does not rethrow, so the fetch
\* returns undefined and the controller takes the "no candidates" branch
QueryRejectSwallowed ==
  /\ pc = "query"
  /\ \E e \in Errors, t \in Translations :
       /\ lookups' = Append(lookups, fetchCatch(e, t).lookup)
       /\ log' = Append(Append(log, fetchCatch(e, t).line), logNoRecordsFound)
       /\ calls' = Settle(calls, "rejected", e)
  /\ result' = Resolved
  /\ pc' = "done"
  /\ UNCHANGED <<results, candidates, idx, deleteCount, newAuditRecord,
                 table, refs, auditTable, exact, runVars>>

QueryReject ==
  /\ pc = "query"
  /\ \E e \in Errors, t \in Translations :
       Fail(fetchCatch(e, t), Settle(calls, "rejected", e))
  /\ UNCHANGED <<results, candidates, idx, deleteCount, newAuditRecord,
                 table, refs, auditTable, exact, runVars>>

\* record.delete.promise resolved: log, return, deleteCount++, start the audit
DeleteResolve ==
  /\ pc = "delete"
  /\ table' = DeleteFrom(table, candidates[idx].id)
  /\ log' = Append(log, RecordDeletedLine(candidates[idx]))
  /\ deleteCount' = Increment(deleteCount)
  /\ calls' = Append(Settle(calls, "ok", NoError), CreateCall(idx))
  /\ pc' = "create"
  /\ UNCHANGED <<results, candidates, idx, newAuditRecord, result, lookups,
                 refs, auditTable, exact, runVars>>

\* variant: deleteRecord's catch logs but does not rethrow, so the controller
\* goes on to deleteCount++ and createAuditRecord
DeleteRejectSwallowed ==
  /\ pc = "delete"
  /\ \E e \in Errors, t \in Translations :
       /\ lookups' = Append(lookups, deleteCatch(e, t).lookup)
       /\ log' = Append(log, deleteCatch(e, t).line)
       /\ calls' = Append(Settle(calls, "rejected", e), CreateCall(idx))
  /\ deleteCount' = Increment(deleteCount)
  /\ pc' = "create"
  /\ UNCHANGED <<results, candidates, idx, newAuditRecord, result, table,
                 refs, auditTable, exact, runVars>>

DeleteReject ==
  /\ pc = "delete"
  /\ \E e \in Errors, t \in Translations :
       Fail(deleteCatch(e, t), Settle(calls, "rejected", e))
  /\ UNCHANGED <<results, candidates, idx, deleteCount, newAuditRecord,
                 table, refs, auditTable, exact, runVars>>

\* variant: the first setValue is not awaited, the second is issued at once
CreateResolveNoAwait ==
  /\ pc = "create"
  /\ newAuditRecord' = NoRecord
  /\ calls' = Append(Append(Settle(calls, "ok", NoError),
                            SetIdCall(idx, candidates[idx])),
                     SetNameCall(idx, candidates[idx]))
  /\ pc' = "setName"
  /\ UNCHANGED <<results, candidates, idx, deleteCount, result, log, lookups,
                 table, refs, auditTable, exact, runVars>>

\* record.create.promise resolved with a new record
CreateResolve ==
  /\ pc = "create"
  /\ newAuditRecord' = NoRecord
  /\ calls' = Append(Settle(calls, "ok", NoError),
                     SetIdCall(idx, candidates[idx]))
  /\ pc' = "setId"
  /\ UNCHANGED <<results, candidates, idx, deleteCount, result, log, lookups,
                 table, refs, auditTable, exact, runVars>>

\* setValue of custrecord_deleted_record_id resolved
SetIdResolve ==
  /\ pc = "setId"
  /\ newAuditRecord' =
       [newAuditRecord EXCEPT !.custrecord_deleted_record_id =
                                 calls[Len(calls)].id]
  /\ calls' = Append(Settle(calls, "ok", NoError),
                     SetNameCall(idx, candidates[idx]))
  /\ pc' = "setName"
  /\ UNCHANGED <<results, candidates, idx, deleteCount, result, log, lookups,
                 table, refs, auditTable, exact, runVars>>

\* setValue of custrecord_deleted_record_name resolved
SetNameResolve ==
  /\ pc = "setName"
  /\ newAuditRecord' =
       [newAuditRecord EXCEPT !.custrecord_deleted_record_name =
                                 calls[Len(calls)].name]
  /\ calls' = Append(Settle(calls, "ok", NoError), SaveCall(idx))
  /\ pc' = "save"
  /\ UNCHANGED <<results, candidates, idx, deleteCount, result, log, lookups,
                 table, refs, auditTable, exact, runVars>>

\* save resolved with the new id: log, return, next iteration of the loop
SaveResolve ==
  /\ pc = "save"
  /\ LET savedId == NextAuditId(auditTable) IN
       /\ auditTable' = Append(auditTable, SavedRow(savedId, newAuditRecord))
       /\ LoopFrom(candidates, idx + 1, deleteCount,
                   Append(log, AuditCreatedLine(savedId, candidates[idx])),
                   Settle(calls, "ok", NoError))
  /\ UNCHANGED <<results, candidates, deleteCount, newAuditRecord, lookups,
                 table, refs, exact, runVars>>

\* variant: createAuditRecord's catch logs but does not rethrow, so the loop
\* goes on with the next candidate
AuditRejectSwallowed ==
  /\ pc \in {"create", "setId", "setName", "save"}
  /\ \E e \in Errors, t \in Translations :
       /\ lookups' = Append(lookups, auditCatch(e, t).lookup)
       /\ LoopFrom(candidates, idx + 1, deleteCount,
                   Append(log, auditCatch(e, t).line),
                   Settle(calls, "rejected", e))
  /\ UNCHANGED <<results, candidates, deleteCount, newAuditRecord, table,
                 refs, auditTable, exact, runVars>>

\* create, either setValue, or save rejected: the one catch of createAuditRecord
AuditReject ==
  /\ pc \in {"create", "setId", "setName", "save"}
  /\ \E e \in Errors, t \in Translations :
       Fail(auditCatch(e, t), Settle(calls, "rejected", e))
  /\ UNCHANGED <<results, candidates, idx, deleteCount, newAuditRecord,
                 table, refs, auditTable, exact, runVars>>

Next ==
  \/ Execute
  \/ QueryResolve
  \/ QueryReject
  \/ DeleteResolve
  \/ DeleteReject
  \/ CreateResolve
  \/ SetIdResolve
  \/ SetNameResolve
  \/ SaveResolve
  \/ AuditReject

Spec == Init /\ [][Next]_vars

NextRerun == Next \/ Reexecute

SpecRerun == Init /\ [][NextRerun]_vars

\* repeated invocations against a query service that answers the query
\* exactly, the store being changed by this job only
NextRerunExact ==
  \/ Execute
  \/ Reexecute
  \/ QueryResolveExact
  \/ QueryReject
  \/ DeleteResolve
  \/ DeleteReject
  \/ CreateResolve
  \/ SetIdResolve
  \/ SetNameResolve
  \/ SaveResolve
  \/ AuditReject

SpecRerunExact == Init /\ [][NextRerunExact]_vars

SpecPolicy == InitPolicy /\ [][Next]_vars

\* the outstanding remote promise settles, one way or the other
Settlement ==
  \/ QueryResolve
  \/ QueryReject
  \/ DeleteResolve
  \/ DeleteReject
  \/ CreateResolve
  \/ SetIdResolve
  \/ SetNameResolve
  \/ SaveResolve
  \/ AuditReject

\* the scheduler invokes execute, and every remote call eventually settles
SpecFair ==
  Init /\ [][Next]_vars /\ WF_vars(Execute) /\ WF_vars(Settlement)

\* -------------------------------------------------------------- properties
ErrorLines == SelectSeq(log, LAMBDA l : l.level = "error")

Titled(title) == SelectSeq(log, LAMBDA l : l.title = title)

OpCalls(op) == SelectSeq(calls, LAMBDA c : c.op = op)

RejectedCalls == SelectSeq(calls, LAMBDA c : c.outcome = "rejected")

AuditOps == {"create", "setValue", "save"}

TableIds == {r.id : r \in table}

Decimal == <<"1", "2", "3", "4", "5", "6", "7", "8", "9">>

\* the audit row the store holds for the candidate at position j when it
\* was the n-th record saved
AuditRowOf(n, j) ==
  [id |-> n,
   custrecord_deleted_record_id |-> candidates[j].id,
   custrecord_deleted_record_name |-> candidates[j].name]

\* C1: when the query returned N >= 1 rows, no dependency check reported true
\* and the run ended normally, the run issued exactly N deletes and N audit
\* creations, both in the order of the returned rows, and its last log line
\* is the only "Unused Record Cleanup Complete" line, with detail
\* "Total records deleted: N".
C1_AllRowsDeletedAndAudited ==
  (/\ pc = "done"
   /\ results.present
   /\ Len(results.rows) >= 1
   /\ \A i \in 1..Len(candidates) : ~hasDependencies(candidates[i]))
  => LET n == Len(results.rows) IN
     /\ Len(OpCalls("delete")) = n
     /\ \A i \in 1..n : /\ OpCalls("delete")[i].id = results.rows[i].id
                        /\ OpCalls("delete")[i].outcome = "ok"
     /\ Len(OpCalls("create")) = n
     /\ Len(OpCalls("save")) = n
     /\ \A i \in 1..n : /\ OpCalls("create")[i].pos = i
                        /\ OpCalls("save")[i].outcome = "ok"
     /\ Len(auditTable) = n
     /\ \A i \in 1..n :
          /\ auditTable[i].custrecord_deleted_record_id = results.rows[i].id
          /\ auditTable[i].custrecord_deleted_record_name
               = results.rows[i].name
     /\ log[Len(log)] = Line("audit", "Unused Record Cleanup Complete",
                             "Total records deleted: " \o Decimal[n])
     /\ Len(Titled("Unused Record Cleanup Complete")) = 1

C1_Witness ==
  /\ pc = "done"
  /\ Len(results.rows) = 2
  /\ results.rows[1].id # results.rows[2].id
  /\ Len(auditTable) = 2

\* C2: when the query resolved with zero rows the run is over, resolved,
\* with exactly one log line, titled "No Unused Records", and with no remote
\* call other than the query.
C2_ZeroRows ==
  (/\ Len(calls) >= 1
   /\ calls[1].outcome = "ok"
   /\ results.present
   /\ Len(results.rows) = 0)
  => /\ pc = "done"
     /\ result = Resolved
     /\ Len(log) = 1
     /\ log[1].title = "No Unused Records"
     /\ Len(calls) = 1

C2_Witness ==
  /\ pc = "done"
  /\ calls[1].outcome = "ok"
  /\ results.present
  /\ Len(results.rows) = 0
  /\ Unreferenced # {}

\* C3: when the query call rejected, the run rejected with that error, the
\* log holds exactly one line, an error line, titled "Error fetching unused
\* records." if the lookup found no translation, and no delete or audit
\* call was issued.
C3_QueryRejects ==
  (Len(calls) >= 1 /\ calls[1].outcome = "rejected")
  => /\ pc = "failed"
     /\ result = Rejected(calls[1].error)
     /\ Len(ErrorLines) = 1
     /\ Len(lookups) = 1
     /\ lookups[1].value = Absent
          => ErrorLines[1].title = "Error fetching unused records."
     /\ Len(calls) = 1
     /\ Len(auditTable) = 0
     /\ Titled("No Unused Records") = <<>>
     /\ Titled("Unused Record Cleanup Complete") = <<>>

C3_Witness ==
  /\ pc = "failed"
  /\ calls[1].outcome = "rejected"
  /\ lookups[1].value = Absent
  /\ Unreferenced # {}

\* C4: when the delete call for the candidate at position k rejected, the
\* run rejected with that error, exactly one error line was logged (titled
\* "Error deleting record." if the lookup found no translation), no audit
\* call was issued for position k and no call at all was issued after it.
C4_DeleteRejects ==
  \A i \in 1..Len(calls) :
    (calls[i].op = "delete" /\ calls[i].outcome = "rejected")
    => /\ pc = "failed"
       /\ result = Rejected(calls[i].error)
       /\ Len(ErrorLines) = 1
       /\ Len(lookups) = 1
       /\ lookups[1].value = Absent
            => ErrorLines[1].title = "Error deleting record."
       /\ i = Len(calls)
       /\ \A j \in 1..Len(calls) :
            calls[j].op \in AuditOps => calls[j].pos < calls[i].pos
       /\ \A j \in 1..Len(calls) :
            calls[j].op = "delete" => calls[j].pos <= calls[i].pos
       /\ Len(auditTable) = calls[i].pos - 1

C4_Witness ==
  /\ pc = "failed"
  /\ calls[Len(calls)].op = "delete"
  /\ calls[Len(calls)].outcome = "rejected"
  /\ calls[Len(calls)].pos = 1
  /\ Len(candidates) = 2
  /\ lookups[1].value = Absent

\* C5: when the delete for position k succeeded and a call of its audit
\* creation rejected, the run rejected with that error, exactly one error
\* line was logged (titled "Error creating audit record." if the lookup found
\* no translation), the record is gone from the target table, and no call
\* was issued after the failing one.
C5_AuditRejects ==
  \A i \in 1..Len(calls) :
    (calls[i].op \in AuditOps /\ calls[i].outcome = "rejected")
    => /\ pc = "failed"
       /\ result = Rejected(calls[i].error)
       /\ Len(ErrorLines) = 1
       /\ Len(lookups) = 1
       /\ lookups[1].value = Absent
            => ErrorLines[1].title = "Error creating audit record."
       /\ candidates[calls[i].pos].id \notin TableIds
       /\ \E j \in 1..i : /\ calls[j].op = "delete"
                          /\ calls[j].pos = calls[i].pos
                          /\ calls[j].outcome = "ok"
       /\ i = Len(calls)
       /\ \A j \in 1..Len(calls) : calls[j].pos <= calls[i].pos

C5_Witness ==
  /\ pc = "failed"
  /\ calls[Len(calls)].op = "save"
  /\ calls[Len(calls)].outcome = "rejected"
  /\ calls[Len(calls)].pos = 1
  /\ Len(candidates) = 2
  /\ lookups[1].value = Absent
  /\ \E r \in Rows : r.id = candidates[1].id /\ r.id \notin TableIds

\* C6: when the run ended with an error raised inside the candidate loop, no
\* "Unused Record Cleanup Complete" line was logged, every candidate before
\* the failing position is gone from the target table, and the audit table
\* holds exactly one row for each of them, in fetch order.
C6_FailFastPrefix ==
  (pc = "failed" /\ calls[Len(calls)].pos >= 1)
  => LET k == calls[Len(calls)].pos IN
     /\ Titled("Unused Record Cleanup Complete") = <<>>
     /\ \A j \in 1..(k - 1) : candidates[j].id \notin TableIds
     /\ \A j \in 1..(k - 1) :
          \E n \in 1..Len(calls) : /\ calls[n].op = "delete"
                                   /\ calls[n].pos = j
                                   /\ calls[n].outcome = "ok"
     /\ Len(auditTable) = k - 1
     /\ \A j \in 1..(k - 1) : auditTable[j] = AuditRowOf(j, j)

C6_Witness ==
  /\ pc = "failed"
  /\ calls[Len(calls)].pos = 2
  /\ calls[Len(calls)].op = "delete"
  /\ candidates[1].id # candidates[2].id
  /\ Len(auditTable) = 1

\* C7: once the run has terminated, every record whose delete call succeeded
\* has an audit row carrying its id and name.
C7_EveryDeleteAudited ==
  (pc \in {"done", "failed"})
  => \A i \in 1..Len(calls) :
       (calls[i].op = "delete" /\ calls[i].outcome = "ok")
       => \E n \in 1..Len(auditTable) :
            /\ auditTable[n].custrecord_deleted_record_id
                 = candidates[calls[i].pos].id
            /\ auditTable[n].custrecord_deleted_record_name
                 = candidates[calls[i].pos].name

\* C8: when the previous run ended normally on a query result that was
\* exactly the unreferenced rows, and this run's query result is again
\* exactly the unreferenced rows, this run has no candidates, is over with
\* the single log line "No Unused Records", and issued no call but the query.
C8_SecondRunFindsNothing ==
  (prev = "clean" /\ exact)
  => /\ Len(candidates) = 0
     /\ pc = "done"
     /\ result = Resolved
     /\ Len(log) = 1
     /\ log[1].title = "No Unused Records"
     /\ Len(calls) = 1

C8_Witness ==
  /\ run = 2
  /\ prev = "clean"
  /\ exact
  /\ pc = "done"
  /\ Len(auditTable) = 1
  /\ table # {}

KeyOf(op) ==
  CASE op = "runSuiteQL" -> "query_error"
    [] op = "delete" -> "delete_error"
    [] OTHER -> "audit_error"

\* C9: a remote call that rejected is the last call of the run (nothing is
\* retried or issued after it), the run is rejected with exactly the error
\* the call raised, and the log holds exactly one error line, written under
\* the key of the operation that made the call, with the error's message as
\* its details; a run in which no call rejected has no error line.
C9_LoggedOnceRethrownUnchanged ==
  /\ Len(ErrorLines) = Len(RejectedCalls)
  /\ Len(lookups) = Len(RejectedCalls)
  /\ \A i \in 1..Len(calls) :
       calls[i].outcome = "rejected"
       => /\ i = Len(calls)
          /\ pc = "failed"
          /\ result = Rejected(calls[i].error)
          /\ ErrorLines[1].details = calls[i].error.message
          /\ lookups[1].key = KeyOf(calls[i].op)

C9_Witness ==
  /\ pc = "failed"
  /\ calls[Len(calls)].op = "delete"
  /\ calls[Len(calls)].pos = 2
  /\ calls[Len(calls)].outcome = "rejected"
  /\ result.error.message = "Permission denied"

DefaultTitle(key) ==
  CASE key = "query_error" -> "Error fetching unused records."
    [] key = "delete_error" -> "Error deleting record."
    [] key = "audit_error" -> "Error creating audit record."
    [] OTHER -> ""

\* the run's one error line is written under the title of this kind: the
\* translation looked up under the kind's key, or the kind's English default
LoggedUnder(key) ==
  /\ Len(lookups) = 1
  /\ Len(ErrorLines) = 1
  /\ lookups[1].key = key
  /\ ErrorLines[1].title =
       IF lookups[1].value = Absent \/ lookups[1].value.text = ""
         THEN DefaultTitle(key)
         ELSE lookups[1].value.text

Kinds == {"query_error", "delete_error", "audit_error"}

\* the three kinds, each the failure of one remote call
KindOfCall(c) ==
  CASE c.op = "runSuiteQL" -> "query_error"
    [] c.op = "delete" -> "delete_error"
    [] c.op = "create" -> "audit_error"
    [] OTHER -> "none"

\* C10 as stated: each of the three kinds is the failure of one remote call
\* (query, delete, audit-record create); every failing remote call is of one
\* of the kinds and is logged under that kind's title and no other.
C10_OneCallPerKind ==
  \A i \in 1..Len(calls) :
    calls[i].outcome = "rejected"
    => /\ KindOfCall(calls[i]) \in Kinds
       /\ LoggedUnder(KindOfCall(calls[i]))
       /\ \A k \in Kinds \ {KindOfCall(calls[i])} : ~LoggedUnder(k)

\* C10 amended: the kinds are one per operation; a failing query call is
\* logged under the query-error title, a failing delete call under the
\* delete-error title, and a failing create, set-field or save call of the
\* audit record under the audit-error title, and under no other kind.
C10_OneKindPerOperation ==
  \A i \in 1..Len(calls) :
    calls[i].outcome = "rejected"
    => /\ LoggedUnder(KeyOf(calls[i].op))
       /\ \A k \in Kinds \ {KeyOf(calls[i].op)} : ~LoggedUnder(k)

C10_Witness ==
  /\ pc = "failed"
  /\ calls[Len(calls)].op = "save"
  /\ calls[Len(calls)].outcome = "rejected"
  /\ LoggedUnder("audit_error")
  /\ lookups[1].value = Absent

\* C11 as stated: the error line's title is the string the lookup returned
\* whenever it returned a string, and the call site's English default when
\* the lookup result is absent.
C11_TitleIsLookupOrDefault ==
  (Len(lookups) = 1 /\ Len(ErrorLines) = 1)
  => LET t == lookups[1].value
         site == KeyOf(calls[Len(calls)].op) IN
     /\ t.present => ErrorLines[1].title = t.text
     /\ ~t.present => ErrorLines[1].title = DefaultTitle(site)

\* C11 amended: the error line's title is the string the lookup returned
\* whenever it returned a non-empty string, and the English default of the
\* failing call's site when the lookup result is absent or the empty string.
C11_TitleIsNonEmptyLookupOrDefault ==
  (Len(lookups) = 1 /\ Len(ErrorLines) = 1)
  => LET t == lookups[1].value
         site == KeyOf(calls[Len(calls)].op) IN
     /\ lookups[1].key = site
     /\ (t.present /\ t.text # "") => ErrorLines[1].title = t.text
     /\ (~t.present \/ t.text = "")
          => ErrorLines[1].title = DefaultTitle(site)

C11_Witness ==
  /\ pc = "failed"
  /\ calls[Len(calls)].op = "delete"
  /\ lookups[1].value = [present |-> TRUE, text |-> ""]
  /\ ErrorLines[1].title = "Error deleting record."

DecimalOf(n) == IF n = 0 THEN "0" ELSE Decimal[n]

\* positions of the candidates the dependency check reports false for
Eligible == {j \in 1..Len(candidates) : ~hasDeps(candidates[j])}

\* C12: whatever the dependency check, no remote call is ever issued for a
\* candidate it reports true for; the deletes go through the other candidates
\* in fetch order, the counter counts only them, and when the run ends
\* normally every one of them has been deleted and audited and the
\* completion line reports their number (all N with the shipped stub).
C12_DependentsSkipped ==
  /\ \A n \in 1..Len(calls) :
       calls[n].pos >= 1 => calls[n].pos \in Eligible
  /\ \A m, n \in 1..Len(OpCalls("delete")) :
       m < n => OpCalls("delete")[m].pos < OpCalls("delete")[n].pos
  /\ deleteCount <= Cardinality(Eligible)
  /\ (pc = "done" /\ Len(candidates) >= 1)
     => /\ {OpCalls("delete")[n].pos : n \in 1..Len(OpCalls("delete"))}
             = Eligible
        /\ Len(OpCalls("save")) = Cardinality(Eligible)
        /\ deleteCount = Cardinality(Eligible)
        /\ log[Len(log)].details
             = "Total records deleted: " \o DecimalOf(Cardinality(Eligible))
        /\ policy = {} => deleteCount = Len(candidates)

C12_Witness ==
  /\ pc = "done"
  /\ Len(candidates) = 2
  /\ hasDeps(candidates[1])
  /\ ~hasDeps(candidates[2])
  /\ deleteCount = 1

\* the step of the pipeline a call is
StepOf(c) ==
  CASE c.op = "setValue" /\ c.field = "custrecord_deleted_record_id" -> "setId"
    [] c.op = "setValue" -> "setName"
    [] OTHER -> c.op

\* the step that may directly follow a settled step for the same candidate
AfterStep(step) ==
  CASE step = "delete" -> "create"
    [] step = "create" -> "setId"
    [] step = "setId" -> "setName"
    [] step = "setName" -> "save"
    [] OTHER -> "delete"

\* C13: at most one remote call is outstanding, and it is the newest one;
\* every call was issued only after the call before it had settled
\* successfully, as the next step for the same candidate (delete, create,
\* set id, set name, save), or, after the query or a save, as the delete
\* of a later candidate.
C13_OneCallAtATime ==
  /\ Len(SelectSeq(calls, LAMBDA c : c.outcome = "pending")) <= 1
  /\ \A n \in 1..Len(calls) :
       calls[n].outcome = "pending" => n = Len(calls)
  /\ \A n \in 1..(Len(calls) - 1) :
       /\ calls[n].outcome = "ok"
       /\ StepOf(calls[n + 1]) = AfterStep(StepOf(calls[n]))
       /\ IF StepOf(calls[n]) \in {"runSuiteQL", "save"}
            THEN calls[n + 1].pos > calls[n].pos
            ELSE calls[n + 1].pos = calls[n].pos

C13_Witness ==
  /\ pc = "delete"
  /\ calls[Len(calls)].pos = 2
  /\ calls[Len(calls)].outcome = "pending"
  /\ calls[Len(calls) - 1].op = "save"
  /\ calls[Len(calls) - 1].outcome = "ok"

OkCalls(op) == SelectSeq(calls, LAMBDA c : c.op = op /\ c.outcome = "ok")

\* C14 as stated: at every point of a run the counter equals the number of
\* candidates whose delete and audit have both succeeded.
C14_CountsCompletedPairs ==
  deleteCount = Len(OkCalls("save"))

\* C14 amended: the counter is 0 until the first delete of the run succeeds
\* and is incremented once for each candidate whose delete has succeeded,
\* before its audit is attempted; so at every point it equals the number of
\* successful deletes of the run, which is the number of completed
\* delete+audit pairs or one more, and equals it when the run ends normally.
C14_CountsSuccessfulDeletes ==
  /\ deleteCount = Len(OkCalls("delete"))
  /\ Len(OkCalls("save")) <= deleteCount
  /\ deleteCount <= Len(OkCalls("save")) + 1
  /\ pc \in {"idle", "query"} => deleteCount = 0
  /\ pc = "done" => deleteCount = Len(OkCalls("save"))

C14_Witness ==
  /\ run = 2
  /\ pc = "setName"
  /\ deleteCount = 2
  /\ Len(OkCalls("save")) = 1

\* C15: a run issues exactly one query, and once it has resolved the
\* candidates are a sequence: empty when the result is absent or has no
\* rows, and otherwise as long as the result set, the i-th candidate
\* carrying the id and the name of the i-th row and no other field.
C15_FetchMapsRows ==
  /\ pc # "idle" => Len(OpCalls("runSuiteQL")) = 1
  /\ (Len(calls) >= 1 /\ calls[1].outcome = "ok")
     => /\ DOMAIN candidates = 1..Len(candidates)
        /\ (~results.present \/ Len(results.rows) = 0) => candidates = <<>>
        /\ results.present => Len(candidates) = Len(results.rows)
        /\ \A i \in 1..Len(candidates) :
             /\ DOMAIN candidates[i] = {"id", "name"}
             /\ candidates[i].id = results.rows[i].id
             /\ candidates[i].name = results.rows[i].name

C15_Witness ==
  /\ pc \in {"delete", "done", "failed"}
  /\ calls[1].outcome = "ok"
  /\ Len(results.rows) = 2
  /\ DOMAIN results.rows[1] = {"id", "name", "rownumber"}
  /\ results.rows[1].id # results.rows[2].id
  /\ Len(candidates) = 2

\* the remote calls made for the audit record of the candidate at position p
AuditCallsOf(p) == SelectSeq(calls, LAMBDA c : c.op \in AuditOps /\ c.pos = p)

\* what the calls of one createAuditRecord are, in order, save left unsettled
AuditScript(p) ==
  << [op |-> "create", type |-> "customrecord_deletion_audit", field |-> "",
      id |-> 0, name |-> ""],
     [op |-> "setValue", type |-> "", field |-> "custrecord_deleted_record_id",
      id |-> candidates[p].id, name |-> ""],
     [op |-> "setValue", type |-> "",
      field |-> "custrecord_deleted_record_name",
      id |-> 0, name |-> candidates[p].name],
     [op |-> "save", type |-> "", field |-> "", id |-> 0, name |-> ""] >>

\* C16: the calls of each createAuditRecord are, in this order, one create
\* of an audit row, the set of the deleted-id field to the candidate's id,
\* the set of the deleted-name field to its name, and one save, each issued
\* only after the one before succeeded; the audit table holds one row per
\* successful save and no other, with that candidate's id and name, and the
\* log holds one "Audit Record Created" line per successful save and no
\* other, naming the saved row's id and the candidate's id.
C16_AuditRecordSteps ==
  /\ \A p \in 1..Len(candidates) :
       LET a == AuditCallsOf(p) IN
       /\ Len(a) <= 4
       /\ \A n \in 1..Len(a) :
            /\ [f \in {"op", "type", "field", "id", "name"} |-> a[n][f]]
                 = AuditScript(p)[n]
            /\ n < Len(a) => a[n].outcome = "ok"
  /\ Len(auditTable) = Len(OkCalls("save"))
  /\ Len(Titled("Audit Record Created")) = Len(OkCalls("save"))
  /\ \A n \in 1..Len(OkCalls("save")) :
       LET p == OkCalls("save")[n].pos IN
       /\ auditTable[n] = AuditRowOf(auditTable[n].id, p)
       /\ Titled("Audit Record Created")[n] =
            Line("audit", "Audit Record Created",
                 "Audit Record ID: " \o Decimal[auditTable[n].id]
                   \o ", Deleted Record ID: " \o Decimal[candidates[p].id])

C16_Witness ==
  /\ pc = "failed"
  /\ Len(candidates) = 2
  /\ candidates[1].id # candidates[2].id
  /\ Len(auditTable) = 1
  /\ Len(AuditCallsOf(2)) = 4
  /\ AuditCallsOf(2)[4].outcome = "rejected"

\* C17: for each candidate at most one delete is issued, against
\* customrecord_mycustomrecord and keyed by the candidate's id; the log holds
\* one "Record Deleted" line, naming that id, per delete that succeeded and
\* no other; and the log of a run that ended normally on N >= 1 candidates
\* is, per candidate in fetch order, "Record Deleted" then "Audit Record
\* Created", followed by the one completion line, with no error line.
C17_DeleteLoggedIffSucceeded ==
  /\ \A p \in 1..Len(candidates) :
       Len(SelectSeq(calls, LAMBDA c : c.op = "delete" /\ c.pos = p)) <= 1
  /\ \A n \in 1..Len(calls) :
       calls[n].op = "delete"
       => /\ calls[n].type = "customrecord_mycustomrecord"
          /\ calls[n].id = candidates[calls[n].pos].id
  /\ Len(Titled("Record Deleted")) = Len(OkCalls("delete"))
  /\ \A n \in 1..Len(OkCalls("delete")) :
       Titled("Record Deleted")[n].details
         = "Record ID: " \o Decimal[OkCalls("delete")[n].id]
  /\ (pc = "done" /\ Len(candidates) >= 1)
     => /\ Len(log) = 2 * Len(candidates) + 1
        /\ \A i \in 1..Len(candidates) :
             /\ log[2 * i - 1].title = "Record Deleted"
             /\ log[2 * i - 1].details
                  = "Record ID: " \o Decimal[candidates[i].id]
             /\ log[2 * i].title = "Audit Record Created"
        /\ log[Len(log)].title = "Unused Record Cleanup Complete"
        /\ ErrorLines = <<>>

C17_Witness ==
  /\ pc = "done"
  /\ Len(candidates) = 2
  /\ candidates[1].id = 2
  /\ candidates[2].id = 1
  /\ Len(log) = 5

Terminated == pc \in {"done", "failed"}

NoRecordsOutcome ==
  /\ result = Resolved
  /\ Len(Titled("No Unused Records")) = 1
  /\ Titled("Unused Record Cleanup Complete") = <<>>
  /\ ErrorLines = <<>>

CompletionOutcome ==
  /\ result = Resolved
  /\ Len(Titled("Unused Record Cleanup Complete")) = 1
  /\ log[Len(log)].title = "Unused Record Cleanup Complete"
  /\ Titled("No Unused Records") = <<>>
  /\ ErrorLines = <<>>

RejectionOutcome ==
  /\ result.status = "rejected"
  /\ Len(ErrorLines) = 1
  /\ log[Len(log)].level = "error"
  /\ Titled("No Unused Records") = <<>>
  /\ Titled("Unused Record Cleanup Complete") = <<>>

\* C18: when every remote call eventually settles the run terminates, and a
\* terminated run shows exactly one of three outcomes: the "No Unused
\* Records" line and a normal return, the "Unused Record Cleanup Complete"
\* line and a normal return, or a rejection with exactly one error line,
\* logged last; the two audit-level lines never appear in the same run.
C18_TerminatesInOneOutcome ==
  /\ <>Terminated
  /\ [](Terminated
          => Cardinality({o \in {"none", "complete", "rejected"} :
               \/ o = "none" /\ NoRecordsOutcome
               \/ o = "complete" /\ CompletionOutcome
               \/ o = "rejected" /\ RejectionOutcome}) = 1)
  /\ [](~Terminated => result = Pending)
  /\ [](Titled("No Unused Records") = <<>>
          \/ Titled("Unused Record Cleanup Complete") = <<>>)

C18_Witness ==
  /\ Terminated
  /\ RejectionOutcome
  /\ calls[Len(calls)].op = "save"
  /\ calls[Len(calls)].pos = 2

\* C19: in every state of a run the audit records saved are at most the
\* deletes that succeeded, which are at most the candidates fetched; the
\* deletes are ahead by at most one, and when they are, the record that is
\* deleted but not audited is the candidate the loop is at (the one being
\* audited, or the one on which the run failed).
C19_AuditsTrailDeletesByOne ==
  LET saved == Len(OkCalls("save"))
      deleted == Len(OkCalls("delete")) IN
  /\ saved <= deleted
  /\ deleted <= Len(candidates)
  /\ deleted <= saved + 1
  /\ deleted = saved + 1
     => /\ OkCalls("delete")[deleted].pos = idx
        /\ \A n \in 1..saved : OkCalls("save")[n].pos < idx
        /\ pc \in {"create", "setId", "setName", "save", "failed"}
  /\ \A n \in 1..saved : OkCalls("save")[n].pos = OkCalls("delete")[n].pos

C19_Witness ==
  /\ pc = "failed"
  /\ idx = 2
  /\ Len(OkCalls("delete")) = 2
  /\ Len(OkCalls("save")) = 1

\* the query is the first call of the run and its only query; every delete
\* is against the target table and keyed by an id of the fetch result; no
\* call reads, updates or deletes an audit row
OnlyFetchedIdsDeleted ==
  /\ pc # "idle"
     => /\ calls[1].op = "runSuiteQL"
        /\ Len(OpCalls("runSuiteQL")) = 1
  /\ \A n \in 1..Len(calls) :
       /\ calls[n].op \in {"runSuiteQL", "delete", "create", "setValue",
                           "save"}
       /\ calls[n].op = "delete"
          => /\ calls[n].type = "customrecord_mycustomrecord"
             /\ \E i \in 1..Len(results.rows) :
                  results.rows[i].id = calls[n].id
       /\ calls[n].op = "create"
          => calls[n].type = "customrecord_deletion_audit"

\* the target table changes only by losing the row of the outstanding delete
TableFrame ==
  table' # table
  => /\ pc = "delete"
     /\ table' = {r \in table : r.id # calls[Len(calls)].id}

\* the audit table changes only by gaining, at a save, one row naming a
\* candidate whose delete by this run succeeded earlier
AuditFrame ==
  auditTable' # auditTable
  => /\ pc = "save"
     /\ Len(auditTable') = Len(auditTable) + 1
     /\ SubSeq(auditTable', 1, Len(auditTable)) = auditTable
     /\ \E n \in 1..Len(calls) :
          /\ calls[n].op = "delete"
          /\ calls[n].outcome = "ok"
          /\ calls[n].pos = calls[Len(calls)].pos
          /\ auditTable'[Len(auditTable')].custrecord_deleted_record_id
               = calls[n].id
          /\ auditTable'[Len(auditTable')].custrecord_deleted_record_name
               = candidates[calls[n].pos].name

\* C20: a run queries once, first, and never again; it deletes only ids of
\* that fetch result, from the target table; it writes the audit table only
\* by saving a new row that names a candidate it deleted earlier; and it
\* makes no other change to either table.
C20_FrameOfARun ==
  /\ []OnlyFetchedIdsDeleted
  /\ [][TableFrame /\ AuditFrame /\ refs' = refs]_vars

C20_Witness ==
  /\ pc = "done"
  /\ Len(auditTable) = 2
  /\ Len(OkCalls("delete")) = 2
  /\ candidates[1].id # candidates[2].id
  /\ table = {}

====
